---- MODULE Spec2Model ----
(***************************************************************************)
(* A model of kuma-net's NAT table builder (TableBuilder.Build, NatTable)  *)
(* and of the eBPF bootstrap helpers (LoadAndAttachEbpfPrograms, run,      *)
(* isDirEmpty, InitBPFFSMaybe).                                            *)
(*                                                                         *)
(* Text is modelled as a sequence of tokens: a token is a word, a space    *)
(* " ", a newline "\n" or a tab "\t".  Concatenation is \o, the empty      *)
(* string is <<>>, and strings.Join / fmt.Sprintf are computed token by    *)
(* token, so that the position of a line in an output and the separators   *)
(* between lines are part of the value.                                    *)
(***************************************************************************)
EXTENDS Integers, Sequences, FiniteSets, Bags, TLC

VARIABLES
    heap,       \* the chain.ChainBuilder objects; a pointer is an index
    t,          \* the NatTable: four built-in chain pointers and the custom list
    ret,        \* what the latest call on the table returned
    programs,   \* the batch given to LoadAndAttachEbpfPrograms
    lpc,        \* position of LoadAndAttachEbpfPrograms in its body
    idx,        \* index of the program the loop is at
    errs,       \* the errs slice
    trace,      \* what the batch has done so far, in order
    lret,       \* what LoadAndAttachEbpfPrograms returned
    fsKind,     \* what os.Stat finds at fsPath
    mounts,     \* trees stacked at fsPath: the directory itself, then the mounts
    calls,      \* the InitBPFFSMaybe calls that returned, with their results
    foreign,    \* whether anything but InitBPFFSMaybe changed the directory
    preload,    \* whether the kernel puts maps.debug and progs.debug in a new bpf fs
    fpc,        \* position of the InitBPFFSMaybe call in progress
    builds      \* the bag of the Build calls that run or whose string is still held

tableVars  == <<heap, t, ret, builds>>
loaderVars == <<programs, lpc, idx, errs, trace, lret>>
fsVars     == <<fsKind, mounts, calls, foreign, preload, fpc>>
vars       == <<heap, t, ret, programs, lpc, idx, errs, trace, lret,
                fsKind, mounts, calls, foreign, preload, fpc, builds>>

(***************************************************************************)
(* Bounds of the model.                                                    *)
(***************************************************************************)
MaxCustom == 2
MaxAttach == 2
MaxRules == 2
MaxPrograms == 3
MaxCalls == 3
MaxBuilders == 2
MaxSetup == 2

(***************************************************************************)
(* Text.                                                                   *)
(***************************************************************************)
NL == "\n"
SP == " "
TAB == "\t"

\* strings.Join(elems, sep): the elements with sep between neighbours.
RECURSIVE Join(_, _)
Join(elems, sep) ==
    IF Len(elems) = 0 THEN <<>>
    ELSE IF Len(elems) = 1 THEN elems[1]
    ELSE elems[1] \o sep \o Join(Tail(elems), sep)

\* The concatenation of a sequence of sequences (append(dst, src...) in a loop).
RECURSIVE Flatten(_)
Flatten(ss) == IF Len(ss) = 0 THEN <<>> ELSE ss[1] \o Flatten(Tail(ss))

\* fmt.Sprintf("%s %s", a, b)
Sprintf2(a, b) == a \o <<SP>> \o b

(***************************************************************************)
(* consts.Flags and the chain package: the spellings of a directive in     *)
(* compact (FALSE) and verbose (TRUE) mode, and a chain's rendering.       *)
(***************************************************************************)
Flags ==
    [ d \in {"new-chain", "append", "destination-port"} |->
        [ verbose \in BOOLEAN |->
            CASE d = "new-chain" -> IF verbose THEN <<"--new-chain">> ELSE <<"-N">>
              [] d = "append"    -> IF verbose THEN <<"--append">> ELSE <<"-A">>
              [] d = "destination-port" ->
                    IF verbose THEN <<"--destination-port">> ELSE <<"--dport">> ] ]

\* The rule a caller appends to a chain that holds n rules: a match on one
\* destination port, the ports of a chain being 1, 2, ... in insertion order.
RuleFor(n) == [flag |-> "destination-port", value |-> <<ToString(n + 1)>>]

\* The names a caller gives to its custom chains: FOO to the first it makes,
\* BAR to the second, BAZ to the third, and again from FOO.
ChainNames == << <<"FOO">>, <<"BAR">>, <<"BAZ">> >>
ChainNameFor(k) == ChainNames[((k - 1) % Len(ChainNames)) + 1]
CustomNames == { ChainNames[i] : i \in 1..Len(ChainNames) }

BuiltinNames == << <<"PREROUTING">>, <<"INPUT">>, <<"OUTPUT">>, <<"POSTROUTING">> >>

\* chain.NewChain(name): a chain with no rule.
NewChain(name) == [name |-> name, rules |-> <<>>]

\* ChainBuilder.String(): the chain's name.
ChainString(c) == c.name

\* A rule's line in a chain: the append directive, the chain, the parameter.
RuleBuild(c, rule, verbose) ==
    Sprintf2(Sprintf2(Flags["append"][verbose], c.name),
             Sprintf2(Flags[rule.flag][verbose], rule.value))

\* ChainBuilder.Build(verbose): one line per rule, in insertion order.
ChainBuild(c, verbose) ==
    [ i \in 1..Len(c.rules) |-> RuleBuild(c, c.rules[i], verbose) ]

(***************************************************************************)
(* TableBuilder.Build, in the order of its body.  b is the TableBuilder    *)
(* with its chains dereferenced: [name, newChains, chains].                *)
(***************************************************************************)
TableLine(b) == Sprintf2(<<"*">>, b.name)

\* Mutant: the declaration of the last attached chain is lost.
NewChainLinesDropLast(b, verbose) ==
    [ i \in 1..(Len(b.newChains) - 1) |->
        Sprintf2(Flags["new-chain"][verbose], ChainString(b.newChains[i])) ]

\* The newChainLines slice after the second loop.
NewChainLines(b, verbose) ==
    [ i \in 1..Len(b.newChains) |->
        Sprintf2(Flags["new-chain"][verbose], ChainString(b.newChains[i])) ]

\* The ruleLines slice after both loops.
RuleLines(b, verbose) ==
    Flatten([ i \in 1..Len(b.chains) |-> ChainBuild(b.chains[i], verbose) ])
    \o Flatten([ i \in 1..Len(b.newChains) |-> ChainBuild(b.newChains[i], verbose) ])

CustomChainsComment == <<"#", SP, "Custom", SP, "Chains:">>
RulesComment == <<"#", SP, "Rules:">>

\* Mutant: the comment line is put in front of an empty group too.
AnnotateAlways(group, comment, verbose) ==
    IF verbose THEN <<comment>> \o group ELSE group

\* Mutant: the comment line is put in front of the group in compact mode too.
AnnotateBothModes(group, comment, verbose) ==
    IF Len(group) > 0 THEN <<comment>> \o group ELSE group

\* if verbose { if len(group) > 0 { group = append([]string{comment}, group...) } }
Annotate(group, comment, verbose) ==
    IF verbose /\ Len(group) > 0 THEN <<comment>> \o group ELSE group

\* Mutant: the segments are joined by a single line break in both modes.
AssembleSingleBreak(tableLine, newChainLines, ruleLines, verbose) ==
    LET newChains == Join(newChainLines, <<NL>>)
        rules     == Join(ruleLines, <<NL>>)
        lines     == <<tableLine>>
                     \o (IF newChains # <<>> THEN <<newChains>> ELSE <<>>)
                     \o (IF rules # <<>> THEN <<rules>> ELSE <<>>)
                     \o << <<"COMMIT">> >>
    IN  Join(lines, <<NL>>)

\* lines := []string{tableLine} ... return strings.Join(lines, "\n\n" or "\n")
Assemble(tableLine, newChainLines, ruleLines, verbose) ==
    LET newChains == Join(newChainLines, <<NL>>)
        rules     == Join(ruleLines, <<NL>>)
        lines     == <<tableLine>>
                     \o (IF newChains # <<>> THEN <<newChains>> ELSE <<>>)
                     \o (IF rules # <<>> THEN <<rules>> ELSE <<>>)
                     \o << <<"COMMIT">> >>
    IN  IF verbose THEN Join(lines, <<NL, NL>>) ELSE Join(lines, <<NL>>)

TableBuilderBuild(b, verbose) ==
    Assemble(TableLine(b),
             Annotate(NewChainLines(b, verbose), CustomChainsComment, verbose),
             Annotate(RuleLines(b, verbose), RulesComment, verbose),
             verbose)

(***************************************************************************)
(* NatTable.                                                               *)
(***************************************************************************)
\* Nat(): the four built-in chains, empty, and no custom chain.
NatHeap == [ i \in 1..4 |-> NewChain(BuiltinNames[i]) ]
NatInit == [prerouting |-> 1, input |-> 2, output |-> 3, postrouting |-> 4,
            chains |-> <<>>]

Deref(ptrs) == [ i \in 1..Len(ptrs) |-> heap[ptrs[i]] ]

\* The TableBuilder that NatTable.Build makes.
NatTableBuilder ==
    [name      |-> <<"nat">>,
     newChains |-> Deref(t.chains),
     chains    |-> Deref(<<t.prerouting, t.input, t.output, t.postrouting>>)]

NatTableBuild(verbose) == TableBuilderBuild(NatTableBuilder, verbose)

\* What a call returned: the text of a Build, or ("ref") the builder itself,
\* which Nat, NewChain, Append and AddChain return for chaining.
NoText == <<>>
Returned(kind, verbose, text) == [kind |-> kind, verbose |-> verbose, text |-> text]

TotalRules == LET RECURSIVE Sum(_)
                  Sum(i) == IF i = 0 THEN 0 ELSE Len(heap[i].rules) + Sum(i - 1)
              IN  Sum(Len(heap))

\* The chain objects after chain.NewChain(name) by the caller.
NewChainOn(h) == Append(h, NewChain(ChainNameFor(Len(h) - 3)))

\* The chain objects after ChainBuilder.Append on the chain p points to.
AppendOn(h, p) == [h EXCEPT ![p].rules = Append(@, RuleFor(Len(@)))]

\* The table after t.chains = append(t.chains, chain).
AddChainOn(tt, p) == [tt EXCEPT !.chains = Append(@, p)]

\* chain.NewChain(name) by the caller: a new custom chain, not attached yet.
CallNewChain ==
    /\ Len(heap) < 4 + MaxCustom
    /\ heap' = NewChainOn(heap)
    /\ ret' = Returned("ref", FALSE, NoText)
    /\ UNCHANGED <<t, builds, loaderVars, fsVars>>

\* ChainBuilder.Append on the chain p points to (Prerouting(), ..., or a custom one).
CallAppend(p) ==
    /\ TotalRules < MaxRules
    /\ heap' = AppendOn(heap, p)
    /\ ret' = Returned("ref", FALSE, NoText)
    /\ UNCHANGED <<t, builds, loaderVars, fsVars>>

\* NatTable.AddChain(chain): any chain, one of the table's own built-in chains
\* (t.Prerouting(), ...) and a chain that is attached already included.
AddChain(p) ==
    /\ Len(t.chains) < MaxAttach
    /\ t' = AddChainOn(t, p)
    /\ ret' = Returned("ref", FALSE, NoText)
    /\ UNCHANGED <<heap, builds, loaderVars, fsVars>>

\* NatTable.Build(verbose), called while no other call on the table is running.
Build(verbose) ==
    /\ ret' = Returned("Build", verbose, NatTableBuild(verbose))
    /\ UNCHANGED <<heap, t, builds, loaderVars, fsVars>>

(***************************************************************************)
(* Build by concurrent callers.  Every call runs NatTable.Build and        *)
(* TableBuilder.Build in steps, one step per read of the table or of a     *)
(* chain; the slices tableLine, newChainLines and ruleLines are the call's *)
(* own.  The steps of different calls interleave freely.  Callers have no  *)
(* identity: the calls form a bag, a call being its position in the code   *)
(* and its local values.                                                   *)
(***************************************************************************)
Running(r) == r.pc \in {"chains", "newChains"}

\* One call put in the place of another.
Replaced(r, q) == (builds (-) SetToBag({r})) (+) SetToBag({q})

\* The calls, those that run being marked as having run beside another call.
MarkOverlapped ==
    LET Mark(r) == IF Running(r) THEN [r EXCEPT !.overlapped = TRUE] ELSE r
        Unmark(r) == [r EXCEPT !.overlapped = FALSE]
    IN  [ x \in { Mark(r) : r \in BagToSet(builds) } |->
            CopiesIn(x, builds)
            + (IF Running(x) /\ Unmark(x) # x THEN CopiesIn(Unmark(x), builds) ELSE 0) ]

\* NatTable.Build: the TableBuilder is made of the table's custom-chain slice
\* and of its four built-in chain pointers; TableBuilder.Build starts with
\* empty newChainLines and ruleLines.  "entered" keeps the table as the call
\* found it, "overlapped" tells whether the call ran while another one did.
BuildEnter(verbose) ==
    /\ BagCardinality(builds) < MaxBuilders
    /\ builds' = MarkOverlapped (+) SetToBag({
           [pc |-> "chains", verbose |-> verbose,
            b |-> [name |-> <<"nat">>,
                   newChains |-> t.chains,
                   chains |-> <<t.prerouting, t.input, t.output, t.postrouting>>],
            i |-> 1, newChainLines |-> <<>>, ruleLines |-> <<>>,
            text |-> NoText, entered |-> <<heap, t>>,
            overlapped |-> \E r \in BagToSet(builds) : Running(r)] })
    /\ UNCHANGED <<heap, t, ret, loaderVars, fsVars>>

\* for _, c := range b.chains { rules := c.Build(verbose); ruleLines = append(...) }
BuildChains(r) ==
    LET c == heap[r.b.chains[r.i]]
    IN  /\ r.pc = "chains"
        /\ builds' = Replaced(r,
              [r EXCEPT !.ruleLines = @ \o ChainBuild(c, r.verbose),
                        !.i = IF r.i < Len(r.b.chains) THEN r.i + 1 ELSE 1,
                        !.pc = IF r.i < Len(r.b.chains) THEN "chains" ELSE "newChains"])
        /\ UNCHANGED <<heap, t, ret, loaderVars, fsVars>>

\* Mutant: the loop takes every chain it visits off the table's custom list.
BuildNewChainsDraining(r) ==
    LET c == heap[r.b.newChains[r.i]]
    IN  /\ r.pc = "newChains" /\ r.i <= Len(r.b.newChains)
        /\ builds' = Replaced(r,
              [r EXCEPT !.newChainLines =
                            Append(@, Sprintf2(Flags["new-chain"][r.verbose], ChainString(c))),
                        !.ruleLines = @ \o ChainBuild(c, r.verbose),
                        !.i = r.i + 1])
        /\ t' = [t EXCEPT !.chains = SubSeq(@, 2, Len(@))]
        /\ UNCHANGED <<heap, ret, loaderVars, fsVars>>

\* for _, c := range b.newChains { newChainLines = append(...); ruleLines = append(...) }
BuildNewChains(r) ==
    LET c == heap[r.b.newChains[r.i]]
    IN  /\ r.pc = "newChains" /\ r.i <= Len(r.b.newChains)
        /\ builds' = Replaced(r,
              [r EXCEPT !.newChainLines =
                            Append(@, Sprintf2(Flags["new-chain"][r.verbose], ChainString(c))),
                        !.ruleLines = @ \o ChainBuild(c, r.verbose),
                        !.i = r.i + 1])
        /\ UNCHANGED <<heap, t, ret, loaderVars, fsVars>>

\* The rest of TableBuilder.Build, on the call's own slices: the comment
\* lines, the joins, and the return of the string.
BuildReturn(r) ==
    /\ r.pc = "newChains" /\ r.i > Len(r.b.newChains)
    /\ builds' = Replaced(r,
          [r EXCEPT !.pc = "returned",
                    !.text = Assemble(TableLine(r.b),
                               Annotate(r.newChainLines, CustomChainsComment, r.verbose),
                               Annotate(r.ruleLines, RulesComment, r.verbose),
                               r.verbose)])
    /\ UNCHANGED <<heap, t, ret, loaderVars, fsVars>>

\* The caller is done with the string it got.
BuildRelease(r) ==
    /\ r.pc = "returned"
    /\ builds' = builds (-) SetToBag({r})
    /\ UNCHANGED <<heap, t, ret, loaderVars, fsVars>>

BuildersNext ==
    \/ \E verbose \in BOOLEAN : BuildEnter(verbose)
    \/ \E r \in BagToSet(builds) : BuildChains(r)
    \/ \E r \in BagToSet(builds) : BuildNewChains(r)
    \/ \E r \in BagToSet(builds) : BuildReturn(r)
    \/ \E r \in BagToSet(builds) : BuildRelease(r)

\* The tables a caller can have made with at most k calls of chain.NewChain,
\* ChainBuilder.Append and NatTable.AddChain, in any order and on any chain.
RECURSIVE TablesAfter(_)
TablesAfter(k) ==
    IF k = 0 THEN { [heap |-> NatHeap, t |-> NatInit] }
    ELSE LET prev == TablesAfter(k - 1)
         IN  prev
             \cup { [s EXCEPT !.heap = NewChainOn(@)] : s \in prev }
             \cup UNION { { [s EXCEPT !.heap = AppendOn(@, p)] : p \in 1..Len(s.heap) }
                          : s \in prev }
             \cup UNION { { [s EXCEPT !.t = AddChainOn(@, p)] : p \in 1..Len(s.heap) }
                          : s \in prev }

\* The table the concurrent Build calls are made on: any table made with at
\* most MaxSetup calls.  No call changes it while the Build calls run.
BuildersInit ==
    /\ \E s \in TablesAfter(MaxSetup) : heap = s.heap /\ t = s.t
    /\ ret = Returned("ref", FALSE, NoText)
    /\ builds = EmptyBag

TableInit ==
    /\ heap = NatHeap
    /\ t = NatInit
    /\ ret = Returned("ref", FALSE, NoText)
    /\ builds = EmptyBag

TableNext ==
    \/ CallNewChain
    \/ \E p \in 1..Len(heap) : CallAppend(p)
    \/ \E p \in 1..Len(heap) : AddChain(p)
    \/ \E verbose \in BOOLEAN : Build(verbose)

(***************************************************************************)
(* Reading an output back: its lines, and what kind of line each is.       *)
(***************************************************************************)
\* strings.Split(s, sep) for a one-token separator.
Split(s, sep) ==
    LET at    == SelectSeq([ i \in 1..Len(s) |-> i ], LAMBDA i : s[i] = sep)
        edges == <<0>> \o at \o <<Len(s) + 1>>
    IN  [ k \in 1..(Len(edges) - 1) |-> SubSeq(s, edges[k] + 1, edges[k + 1] - 1) ]

Lines(s) == Split(s, NL)

IsDeclLine(l) == Len(l) > 0 /\ l[1] \in {"-N", "--new-chain"}
IsRuleLine(l) == Len(l) > 0 /\ l[1] \in {"-A", "--append"}
IsCommentLine(l) == l = CustomChainsComment \/ l = RulesComment
IsBlankLine(l) == l = <<>>
IsKept(l) == ~IsCommentLine(l) /\ ~IsBlankLine(l)

\* The chain a declaration line or a rule line names.
NamedChain(l) == <<l[3]>>

Count(ls, l) == Cardinality({ k \in 1..Len(ls) : ls[k] = l })

\* An output with its comment lines and blank lines taken out.
Strip(s) == Join(SelectSeq(Lines(s), IsKept), <<NL>>)

\* A text with every verbose flag spelling replaced by the compact one.
CompactSpelling(s) ==
    [ i \in 1..Len(s) |->
        IF \E d \in DOMAIN Flags : Flags[d][TRUE] = <<s[i]>>
        THEN LET d == CHOOSE d \in DOMAIN Flags : Flags[d][TRUE] = <<s[i]>>
             IN  Flags[d][FALSE][1]
        ELSE s[i] ]

IsBuilt == ret.kind = "Build"
Out == Lines(ret.text)
Attached == Deref(t.chains)
Builtins == Deref(<<t.prerouting, t.input, t.output, t.postrouting>>)
NumRuleLines ==
    LET RECURSIVE Sum(_, _)
        Sum(cs, i) == IF i = 0 THEN 0 ELSE Len(cs[i].rules) + Sum(cs, i - 1)
    IN  Sum(Builtins, 4) + Sum(Attached, Len(Attached))

\* The line the table is expected to show for rule j of chain c in a mode.
ExpectedRuleLine(c, j, verbose) ==
    (IF verbose THEN <<"--append">> ELSE <<"-A">>) \o <<SP>> \o c.name \o <<SP>>
    \o (IF verbose THEN <<"--destination-port">> ELSE <<"--dport">>)
    \o <<SP, ToString(j)>>
ExpectedChainLines(c, verbose) ==
    [ j \in 1..Len(c.rules) |-> ExpectedRuleLine(c, j, verbose) ]
ExpectedDeclLine(c, verbose) ==
    (IF verbose THEN <<"--new-chain">> ELSE <<"-N">>) \o <<SP>> \o c.name

\* C1: with N custom chains attached in order c1..cN (chains without rules
\* included), a Build output in either mode holds exactly N declaration lines,
\* in the order c1..cN, every one of them before every rule line; with N = 0
\* it holds no declaration line and no "# Custom Chains:" group.
C1_DeclarationLines ==
    IsBuilt =>
        LET out == Out
            att == Attached
        IN  /\ SelectSeq(out, IsDeclLine)
                 = [ i \in 1..Len(att) |-> ExpectedDeclLine(att[i], ret.verbose) ]
            /\ \A i, j \in 1..Len(out) :
                 IsDeclLine(out[i]) /\ IsRuleLine(out[j]) => i < j
            /\ Len(att) = 0 => Count(out, CustomChainsComment) = 0

C1_Witness ==
    /\ IsBuilt
    /\ Len(Attached) = 2 /\ t.chains[1] # t.chains[2]
    /\ Attached[1].name # Attached[2].name
    /\ Len(Attached[1].rules) = 0
    /\ Len(Attached[2].rules) > 0
    /\ \E i \in 1..4 : Len(Builtins[i].rules) > 0

\* C2: the rule lines of a Build output are the rule lines of PREROUTING,
\* INPUT, OUTPUT, POSTROUTING in that order, then those of the custom chains
\* in attachment order, each chain's rules in insertion order; every rule line
\* of a built-in chain comes before every rule line of a custom chain, and the
\* rule lines of one chain are not separated by those of another.
C2_RuleLineOrder ==
    IsBuilt =>
        LET out == SelectSeq(Out, IsRuleLine)
            att == Attached
            blt == Builtins
        IN  /\ out = Flatten([ i \in 1..4 |-> ExpectedChainLines(blt[i], ret.verbose) ])
                     \o Flatten([ i \in 1..Len(att) |->
                                    ExpectedChainLines(att[i], ret.verbose) ])
            /\ \A i, j \in 1..Len(out) :
                 /\ NamedChain(out[i]) \in CustomNames
                 /\ NamedChain(out[j]) \notin CustomNames
                 => j < i
            /\ \A i, j, k \in 1..Len(out) :
                 i < k /\ k < j /\ NamedChain(out[i]) = NamedChain(out[j])
                 => NamedChain(out[k]) = NamedChain(out[i])

\* C3 as stated: the verbose output, with its comment lines and blank-line
\* separators stripped, equals the compact output of the same table byte for byte.
C3_StrippedVerboseIsCompact ==
    IsBuilt /\ ret.verbose => Strip(ret.text) = NatTableBuild(FALSE)

\* C3 as amended: the verbose output, with its comment lines and blank-line
\* separators stripped, equals the compact output of the same table once every
\* flag is put in its compact spelling; it has the lines of the compact output,
\* in the same order, and differs from it in the spelling of the flags only
\* (it does differ whenever a custom chain is attached).
C3_StrippedVerboseIsCompactUpToSpelling ==
    IsBuilt /\ ret.verbose =>
        LET stripped == Strip(ret.text)
            compact  == NatTableBuild(FALSE)
        IN  /\ CompactSpelling(stripped) = compact
            /\ Len(Lines(stripped)) = Len(Lines(compact))
            /\ Len(t.chains) > 0 => stripped # compact

C3_Witness ==
    /\ IsBuilt /\ ret.verbose
    /\ Len(t.chains) > 0
    /\ NumRuleLines > 0
    /\ LET out == Out
       IN  Count(out, CustomChainsComment) = 1 /\ Count(out, RulesComment) = 1

\* C4: a Build call, in either mode and however its steps interleave with
\* those of other Build calls, leaves the four built-in chains, the
\* custom-chain list and every chain's rules as it found them, at every one of
\* its steps and when it has returned; and the Build calls of one mode on a
\* table that nobody changes return the same string, which is the string of a
\* Build that runs alone on that table.
C4_BuildIsReadOnly ==
    LET held == BagToSet(builds)
    IN  /\ \A r \in held : r.entered = <<heap, t>>
        /\ \A r, q \in held :
             /\ r.pc = "returned" /\ q.pc = "returned"
             /\ r.verbose = q.verbose
             => r.text = q.text
        /\ \A r \in held :
             r.pc = "returned" => r.text = NatTableBuild(r.verbose)

\* Two Build calls of the same mode that ran at the same time have both
\* returned, on a table with a custom chain attached.
C4_Witness ==
    \E r, q \in BagToSet(builds) :
        /\ r # q \/ CopiesIn(r, builds) >= 2
        /\ r.pc = "returned" /\ q.pc = "returned"
        /\ r.verbose = q.verbose
        /\ r.overlapped /\ q.overlapped
        /\ Len(t.chains) > 0 /\ t.chains[1] > 4
        /\ Len(Lines(r.text)) > 2

\* C8: every Build output declares each chain name at most once: no
\* declaration line names a built-in chain, and each attached custom chain is
\* named by exactly one declaration line, which precedes all of its rule lines.
C8_EachChainDeclaredOnce ==
    IsBuilt =>
        LET out == Out
            att == Attached
        IN  /\ \A k \in 1..Len(out) :
                 IsDeclLine(out[k]) =>
                     /\ \A i \in 1..4 : NamedChain(out[k]) # BuiltinNames[i]
                     /\ \A j \in 1..Len(out) :
                          IsDeclLine(out[j]) /\ NamedChain(out[j]) = NamedChain(out[k])
                          => j = k
            /\ \A i \in 1..Len(att) :
                 /\ Cardinality({ k \in 1..Len(out) :
                        IsDeclLine(out[k]) /\ NamedChain(out[k]) = att[i].name }) = 1
                 /\ \A k, j \in 1..Len(out) :
                        /\ IsDeclLine(out[k]) /\ NamedChain(out[k]) = att[i].name
                        /\ IsRuleLine(out[j]) /\ NamedChain(out[j]) = att[i].name
                        => k < j

IsEmptyTable ==
    /\ Len(t.chains) = 0
    /\ \A i \in 1..4 : Len(heap[i].rules) = 0

\* C9: for a table with no rule in any chain and no custom chain, Build emits
\* the header line and the COMMIT line only, with no comment line in either
\* mode; in compact mode the output is exactly "* nat\nCOMMIT".
C9_EmptyTable ==
    IsBuilt /\ IsEmptyTable =>
        LET out == Out
        IN  /\ SelectSeq(out, LAMBDA l : ~IsBlankLine(l))
                 = << <<"*", SP, "nat">>, <<"COMMIT">> >>
            /\ \A k \in 1..Len(out) : ~IsCommentLine(out[k])
            /\ ~ret.verbose => ret.text = <<"*", SP, "nat", NL, "COMMIT">>
            /\ ret.verbose => ret.text = <<"*", SP, "nat", NL, NL, "COMMIT">>

C9_Witness ==
    /\ IsBuilt /\ IsEmptyTable /\ ~ret.verbose
    /\ Len(heap) > 4 /\ Len(heap[5].rules) > 0

\* C10: in verbose mode, with at least one custom chain and one rule line, the
\* output is the header, a blank line, "# Custom Chains:" and right after it
\* the declaration lines, a blank line, "# Rules:" and right after it the rule
\* lines, a blank line, COMMIT; a comment line appears once when its group is
\* not empty and never otherwise; a compact output has no comment line and no
\* blank line.
C10_VerboseLayout ==
    IsBuilt =>
        LET out == Out
            n   == Len(t.chains)
            r   == NumRuleLines
        IN  /\ ret.verbose /\ n > 0 /\ r > 0 =>
                /\ Len(out) = n + r + 7
                /\ out[1] = <<"*", SP, "nat">>
                /\ out[2] = <<>>
                /\ out[3] = CustomChainsComment
                /\ \A k \in 4..(3 + n) : IsDeclLine(out[k])
                /\ out[4 + n] = <<>>
                /\ out[5 + n] = RulesComment
                /\ \A k \in (6 + n)..(5 + n + r) : IsRuleLine(out[k])
                /\ out[6 + n + r] = <<>>
                /\ out[7 + n + r] = <<"COMMIT">>
            /\ ret.verbose =>
                /\ Count(out, CustomChainsComment) = (IF n > 0 THEN 1 ELSE 0)
                /\ Count(out, RulesComment) = (IF r > 0 THEN 1 ELSE 0)
            /\ ~ret.verbose =>
                \A k \in 1..Len(out) : ~IsCommentLine(out[k]) /\ ~IsBlankLine(out[k])

C10_Witness ==
    /\ IsBuilt /\ ret.verbose
    /\ Len(t.chains) = 2
    /\ NumRuleLines = 2

(***************************************************************************)
(* LoadAndAttachEbpfPrograms and run.  The batch is a list of programs;    *)
(* what p.Flags() returns and how the executed program ends are decided    *)
(* when the call is made.                                                  *)
(***************************************************************************)
ProgramNames == <<"mb_connect", "mb_sockops", "mb_redir", "mb_tc">>

\* The batches: the first n programs, n = 0..MaxPrograms.
Batches == { [ i \in 1..n |-> [name |-> ProgramNames[((i - 1) % Len(ProgramNames)) + 1]] ] :
               n \in 0..MaxPrograms }

\* How cmd.Run() can end: the exit code that cmd.ProcessState.ExitCode() gives
\* (-1 when the process never started) and the error of Run ("nil" for none).
RunOutcomes ==
    { [code |-> 0,  err |-> "<nil>"],
      [code |-> 1,  err |-> "exit status 1"],
      [code |-> -1, err |-> "executable file not found"],
      [code |-> 0,  err |-> "write: broken pipe"] }

\* The error a failing p.Flags() returns, as text.
FlagsError(p) == <<"flags", SP, "of", SP, p.name, SP, "failed">>

\* run: if code := cmd.ProcessState.ExitCode(); code != 0 || err != nil
RunFailed(outcome) == outcome.code # 0 \/ outcome.err # "<nil>"

\* fmt.Errorf("unexpected exit code: %d, err: %v", code, err)
RunError(outcome) ==
    <<"unexpected", SP, "exit", SP, "code:", SP, ToString(outcome.code), ",",
      SP, "err:", SP, outcome.err>>

NotReturned == [returned |-> FALSE, isNil |-> TRUE, text |-> <<>>]
ReturnedNil == [returned |-> TRUE, isNil |-> TRUE, text |-> <<>>]
ReturnedError(text) == [returned |-> TRUE, isNil |-> FALSE, text |-> text]

\* flags, err := p.Flags(); if err != nil { errs = append(...); continue }
LoaderFlags ==
    /\ lpc = "loop" /\ idx <= Len(programs)
    /\ \E ok \in BOOLEAN :
         /\ trace' = Append(trace, [op |-> "Flags", prog |-> idx, ok |-> ok,
                                    outcome |-> [code |-> 0, err |-> "<nil>"]])
         /\ IF ok
            THEN lpc' = "run" /\ UNCHANGED <<idx, errs>>
            ELSE /\ errs' = Append(errs, FlagsError(programs[idx]))
                 /\ idx' = idx + 1
                 /\ lpc' = "loop"
    /\ UNCHANGED <<programs, lret, tableVars, fsVars>>

\* Mutant: the loop is left at the first program that fails to run.
LoaderRunBreak ==
    /\ lpc = "run"
    /\ \E outcome \in RunOutcomes :
         /\ trace' = Append(trace, [op |-> "exec", prog |-> idx, ok |-> ~RunFailed(outcome),
                                    outcome |-> outcome])
         /\ errs' = IF RunFailed(outcome) THEN Append(errs, RunError(outcome)) ELSE errs
         /\ idx' = IF RunFailed(outcome) THEN Len(programs) + 1 ELSE idx + 1
    /\ lpc' = "loop"
    /\ UNCHANGED <<programs, lret, tableVars, fsVars>>

\* if err := run(...); err != nil { errs = append(...); continue }
LoaderRun ==
    /\ lpc = "run"
    /\ \E outcome \in RunOutcomes :
         /\ trace' = Append(trace, [op |-> "exec", prog |-> idx, ok |-> ~RunFailed(outcome),
                                    outcome |-> outcome])
         /\ errs' = IF RunFailed(outcome) THEN Append(errs, RunError(outcome)) ELSE errs
    /\ idx' = idx + 1
    /\ lpc' = "loop"
    /\ UNCHANGED <<programs, lret, tableVars, fsVars>>

LoaderPrefix == <<"loading", SP, "and", SP, "attaching", SP, "bpf", SP, "programs", SP, "failed:">>

\* Mutant: only the first failure is reported.
LoaderReturnFirstOnly ==
    /\ lpc = "loop" /\ idx > Len(programs)
    /\ lret' = IF Len(errs) > 0
               THEN ReturnedError(LoaderPrefix \o <<NL>> \o errs[1])
               ELSE ReturnedNil
    /\ lpc' = "done"
    /\ UNCHANGED <<programs, idx, errs, trace, tableVars, fsVars>>

\* if len(errs) > 0 { return fmt.Errorf("...failed:\n%s", strings.Join(errs, "\n\t")) }
\* return nil
LoaderReturn ==
    /\ lpc = "loop" /\ idx > Len(programs)
    /\ lret' = IF Len(errs) > 0
               THEN ReturnedError(LoaderPrefix \o <<NL>> \o Join(errs, <<NL, TAB>>))
               ELSE ReturnedNil
    /\ lpc' = "done"
    /\ UNCHANGED <<programs, idx, errs, trace, tableVars, fsVars>>

LoaderIdle ==
    /\ programs = <<>> /\ lpc = "done" /\ idx = 1 /\ errs = <<>>
    /\ trace = <<>> /\ lret = NotReturned

\* LoadAndAttachEbpfPrograms(programs, cfg) entered: var errs []string
LoaderInit ==
    /\ programs \in Batches
    /\ lpc = "loop" /\ idx = 1 /\ errs = <<>>
    /\ trace = <<>> /\ lret = NotReturned

LoaderNext == LoaderFlags \/ LoaderRun \/ LoaderReturn

\* What the batch did: the Flags calls, the executions, the failures.
FlagsCalls == SelectSeq(trace, LAMBDA e : e.op = "Flags")
Executions == SelectSeq(trace, LAMBDA e : e.op = "exec")
Failures == SelectSeq(trace, LAMBDA e : ~e.ok)
FailureText(e) == IF e.op = "Flags" THEN FlagsError(programs[e.prog]) ELSE RunError(e.outcome)

\* The entries of a joined error: the lines after the first, without the tab
\* that leads every entry but the first.
ErrorEntries(text) ==
    LET ls == Lines(text)
    IN  [ k \in 1..(Len(ls) - 1) |->
            IF k = 1 THEN ls[2]
            ELSE IF Len(ls[k + 1]) > 0 /\ ls[k + 1][1] = TAB THEN Tail(ls[k + 1])
            ELSE <<"no tab">> \o ls[k + 1] ]

\* C5: the programs of the batch are attempted once each, one at a time, in
\* list order, whatever failed before; the batch is over only after the last
\* program was attempted; a program is executed only right after its own
\* successful flag computation, so never after a failed one.
C5_EveryProgramAttempted ==
    LET fl == FlagsCalls
        ex == Executions
    IN  /\ \A k \in 1..Len(fl) : fl[k].prog = k
        /\ Len(fl) <= Len(programs)
        /\ lpc = "done" => Len(fl) = Len(programs)
        /\ \A k \in 1..Len(trace) :
             trace[k].op = "exec" =>
                 /\ k > 1
                 /\ trace[k - 1].op = "Flags"
                 /\ trace[k - 1].prog = trace[k].prog
                 /\ trace[k - 1].ok
        /\ \A k \in 1..Len(fl) :
             ~fl[k].ok => \A j \in 1..Len(ex) : ex[j].prog # fl[k].prog
        /\ \A i, j \in 1..Len(ex) : ex[i].prog = ex[j].prog => i = j
        /\ lpc = "done" =>
             \A k \in 1..Len(fl) : fl[k].ok => \E j \in 1..Len(ex) : ex[j].prog = k

C5_Witness ==
    /\ lpc = "done" /\ Len(programs) = 3
    /\ Len(FlagsCalls) = 3
    /\ ~FlagsCalls[1].ok
    /\ Len(Executions) = 2
    /\ ~Executions[1].ok /\ Executions[1].prog = 2
    /\ Executions[2].ok /\ Executions[2].prog = 3

\* C6: the batch returns nil exactly when no program failed; otherwise it
\* returns, and only once the batch is over, one joined error whose entries
\* are the failures of the failing programs, one each, in list order, with no
\* entry for a program that succeeded.
C6_JoinedError ==
    /\ lpc # "done" => lret = NotReturned
    /\ lpc = "done" =>
         LET failed == Failures
         IN  /\ lret.returned
             /\ lret.isNil <=> Len(failed) = 0
             /\ ~lret.isNil =>
                  /\ Lines(lret.text)[1] = LoaderPrefix
                  /\ ErrorEntries(lret.text)
                       = [ k \in 1..Len(failed) |-> FailureText(failed[k]) ]
             /\ \A k \in 1..Len(failed) : failed[k].prog \in 1..Len(programs)
             /\ \A i, j \in 1..Len(failed) : i < j => failed[i].prog < failed[j].prog
             /\ \A e \in { trace[k] : k \in 1..Len(trace) } :
                  (e.op = "exec" /\ (e.outcome.code # 0 \/ e.outcome.err # "<nil>"))
                  => ~e.ok

C6_Witness ==
    /\ lpc = "done" /\ Len(programs) = 3
    /\ Len(Failures) = 2
    /\ Failures[1].prog = 1 /\ Failures[1].op = "Flags"
    /\ Failures[2].prog = 3 /\ Failures[2].op = "exec"
    /\ Failures[2].outcome.code = 0
    /\ \E j \in 1..Len(Executions) : Executions[j].prog = 2 /\ Executions[j].ok

(***************************************************************************)
(* isDirEmpty and InitBPFFSMaybe.  What is at fsPath is a stack of trees:  *)
(* the directory itself and, on top of it, every file system mounted at    *)
(* fsPath; the last one is the one that is seen.  A tree is a set of       *)
(* entries [path, dir], a path being relative to fsPath.                   *)
(***************************************************************************)
TcGlobals == <<"tc", "globals">>
\* LocalPodIPSPinnedMapPathRelativeToBPFFS, MarkPodIPSPinnedMapPathRelativeToBPFFS
LocalPodIPSPinnedMapPath == <<"tc", "globals", "local_pod_ips">>
MarkPodIPSPinnedMapPath == <<"mark_pod_ips">>

\* What a kernel built with the bpf preload puts in every new bpf file system.
MapsDebug == <<"maps.debug">>
ProgsDebug == <<"progs.debug">>

\* Every path of the model, in the order os.ReadDir lists names.
AllPaths == << MapsDebug, MarkPodIPSPinnedMapPath, ProgsDebug,
               <<"tc">>, TcGlobals, LocalPodIPSPinnedMapPath >>

Dir(p) == [path |-> p, dir |-> TRUE]
File(p) == [path |-> p, dir |-> FALSE]

EmptyTree == {}
InitialTrees ==
    { EmptyTree,
      { Dir(<<"tc">>) },
      { Dir(<<"tc">>), Dir(TcGlobals) },
      { File(MarkPodIPSPinnedMapPath) },
      { Dir(<<"tc">>), Dir(TcGlobals), File(LocalPodIPSPinnedMapPath) } }

\* unix.Mount("bpf", fsPath, "bpf", 0, ""): what the new file system holds.
FreshBpfFs == IF preload THEN { File(MapsDebug), File(ProgsDebug) } ELSE EmptyTree

Visible == mounts[Len(mounts)]

\* os.ReadDir(dirPath): the entries right under dirPath, sorted by name.
ReadDir(tree, dirPath) ==
    SelectSeq(AllPaths, LAMBDA p :
        /\ Len(p) = Len(dirPath) + 1
        /\ SubSeq(p, 1, Len(dirPath)) = dirPath
        /\ \E e \in tree : e.path = p)

EntryIsDir(tree, p) == Dir(p) \in tree

\* isDirEmpty(dirPath): (isEmpty, err); ReadDir fails on the directories of
\* unreadable.  The loop returns at the first entry that is not a directory
\* and at the first directory that is not empty or cannot be read.
RECURSIVE IsDirEmpty(_, _, _)
IsDirEmpty(tree, dirPath, unreadable) ==
    LET RECURSIVE Loop(_)
        Loop(entries) ==
            IF Len(entries) = 0 THEN [empty |-> TRUE, err |-> FALSE]
            ELSE IF ~EntryIsDir(tree, entries[1]) THEN [empty |-> FALSE, err |-> FALSE]
            ELSE LET sub == IsDirEmpty(tree, entries[1], unreadable)
                 IN  IF sub.err \/ ~sub.empty
                     THEN [empty |-> FALSE, err |-> sub.err]
                     ELSE Loop(Tail(entries))
    IN  IF dirPath \in unreadable THEN [empty |-> FALSE, err |-> TRUE]
        ELSE Loop(ReadDir(tree, dirPath))

\* os.MkdirAll(path.Join(fsPath, "tc", "globals"), 0750): it makes tc, then
\* tc/globals, and can fail before either.
MkdirOutcomes == {"made", "failed", "failed after tc"}
MkdirAllTcGlobals(tree, outcome) ==
    CASE outcome = "made"            -> tree \cup { Dir(<<"tc">>), Dir(TcGlobals) }
      [] outcome = "failed after tc" -> tree \cup { Dir(<<"tc">>) }
      [] outcome = "failed"          -> tree

Call(result, checked, mounted, made) ==
    [result |-> result, checked |-> checked, mounted |-> mounted, made |-> made]

\* InitBPFFSMaybe(fsPath) up to the emptiness check: os.Stat, isDirEmpty and
\* the returns they lead to.  The environment decides which directories
\* cannot be read.
InitBPFFSMaybeCheck ==
    /\ fpc = "idle"
    /\ Len(calls) < MaxCalls
    /\ \E unreadable \in { {}, {<<>>}, {<<"tc">>} } :
         IF fsKind = "missing" THEN
             /\ calls' = Append(calls, Call("stat failed", FALSE, FALSE, FALSE))
             /\ fpc' = "idle"
         ELSE IF fsKind # "dir" THEN
             /\ calls' = Append(calls, Call("not a directory", FALSE, FALSE, FALSE))
             /\ fpc' = "idle"
         ELSE
             LET check == IsDirEmpty(Visible, <<>>, unreadable)
             IN  IF check.err THEN
                     /\ calls' = Append(calls, Call("checking failed", FALSE, FALSE, FALSE))
                     /\ fpc' = "idle"
                 ELSE IF ~check.empty THEN
                     /\ calls' = Append(calls, Call("nil", TRUE, FALSE, FALSE))
                     /\ fpc' = "idle"
                 ELSE
                     /\ fpc' = "mount"
                     /\ UNCHANGED calls
    /\ UNCHANGED <<fsKind, mounts, foreign, preload, tableVars, loaderVars>>

\* if err := unix.Mount("bpf", fsPath, "bpf", 0, ""); err != nil { return ... }
InitBPFFSMaybeMount ==
    /\ fpc = "mount"
    /\ \E mountFails \in BOOLEAN :
         IF mountFails THEN
             /\ calls' = Append(calls, Call("mounting failed", TRUE, FALSE, FALSE))
             /\ fpc' = "idle"
             /\ UNCHANGED mounts
         ELSE
             /\ mounts' = Append(mounts, FreshBpfFs)
             /\ fpc' = "mkdir"
             /\ UNCHANGED calls
    /\ UNCHANGED <<fsKind, foreign, preload, tableVars, loaderVars>>

\* if err := os.MkdirAll(...); err != nil { return ... }; return nil
InitBPFFSMaybeMkdir ==
    /\ fpc = "mkdir"
    /\ \E outcome \in MkdirOutcomes :
         /\ mounts' = [mounts EXCEPT ![Len(mounts)] = MkdirAllTcGlobals(@, outcome)]
         /\ calls' = Append(calls,
                IF outcome = "made" THEN Call("nil", TRUE, TRUE, TRUE)
                ELSE Call("making directory failed", TRUE, TRUE, FALSE))
    /\ fpc' = "idle"
    /\ UNCHANGED <<fsKind, foreign, preload, tableVars, loaderVars>>

\* A loaded program pins one of its maps at its path under fsPath.
PinMap(p) ==
    /\ fsKind = "dir"
    /\ \A e \in Visible : e.path # p
    /\ Len(p) = 1 \/ Dir(SubSeq(p, 1, Len(p) - 1)) \in Visible
    /\ mounts' = [mounts EXCEPT ![Len(mounts)] = @ \cup { File(p) }]
    /\ foreign' = TRUE
    /\ UNCHANGED <<fsKind, calls, preload, fpc, tableVars, loaderVars>>

FsInit ==
    /\ fsKind \in {"missing", "file", "dir"}
    /\ mounts \in IF fsKind = "dir" THEN { <<tree>> : tree \in InitialTrees } ELSE { <<>> }
    /\ calls = <<>>
    /\ foreign = FALSE
    /\ preload \in BOOLEAN
    /\ fpc = "idle"

FsNext ==
    \/ InitBPFFSMaybeCheck
    \/ InitBPFFSMaybeMount
    \/ InitBPFFSMaybeMkdir
    \/ \E p \in {LocalPodIPSPinnedMapPath, MarkPodIPSPinnedMapPath} : PinMap(p)

\* C7: in a sequence of InitBPFFSMaybe calls on one directory that nothing
\* else changes, the file system is mounted at most once: after a call that
\* mounted it and made tc/globals, no later call mounts again, and every later
\* call whose emptiness check ran returns nil.
C7_MountedOnce ==
    ~foreign =>
        /\ Cardinality({ k \in 1..Len(calls) : calls[k].mounted }) <= 1
        /\ \A i, j \in 1..Len(calls) :
             i < j /\ calls[i].mounted /\ calls[i].made =>
                 /\ ~calls[j].mounted
                 /\ calls[j].checked => calls[j].result = "nil"

FsIdle ==
    /\ fsKind = "missing" /\ mounts = <<>> /\ calls = <<>> /\ foreign = FALSE
    /\ preload = FALSE /\ fpc = "idle"

TableIdle == TableInit

Init == TableInit /\ LoaderIdle /\ FsIdle
Next == TableNext
Spec == Init /\ [][Next]_vars

SpecLoaderInit == TableIdle /\ LoaderInit /\ FsIdle
SpecLoaderNext == LoaderNext
SpecLoader == SpecLoaderInit /\ [][SpecLoaderNext]_vars

SpecFSInit == TableIdle /\ LoaderIdle /\ FsInit
SpecFSNext == FsNext
SpecFS == SpecFSInit /\ [][SpecFSNext]_vars

SpecBuildInit == BuildersInit /\ LoaderIdle /\ FsIdle
SpecBuildNext == BuildersNext
SpecBuild == SpecBuildInit /\ [][SpecBuildNext]_vars
====
